---- MODULE Spec2Model ----
(***************************************************************************)
(* Model of bsky_utils.py: matches_criteria, traverse, generic_page_loop,  *)
(* generic_page_loop_return.                                               *)
(*                                                                         *)
(* Python values are tagged pairs <<tag, payload>>:                        *)
(*   None  <<"null", 0>>        int/bool <<"int", n>>   (True == 1)        *)
(*   str   <<"str", s>>         list     <<"list", <<v1, ..., vn>>>>       *)
(*   dict  <<"dict", f>>  f a function from a set of strings to values     *)
(*   tuple <<"tuple", <<v1, ..., vn>>>>                                    *)
(* A path is a Python list of segments, themselves Python values: a str is *)
(* a Key, an int an Index, a dict a Filter, a list a Fallback, a tuple a   *)
(* Branch.                                                                 *)
(***************************************************************************)
EXTENDS Integers, Sequences, FiniteSets, TLC

Null == <<"null", 0>>
PyInt(n) == <<"int", n>>
PyStr(s) == <<"str", s>>
PyList(xs) == <<"list", xs>>
PyDict(f) == <<"dict", f>>
PyTuple(xs) == <<"tuple", xs>>
Raised(e) == <<"raise", e>>

Tag(v) == v[1]
Val(v) == v[2]
IsDict(v) == Tag(v) = "dict"
IsList(v) == Tag(v) = "list"
IsRaised(v) == Tag(v) = "raise"

EmptyMap == [k \in {} |-> Null]
\* `key in d` for a dict d parsed from JSON (its keys are strings)
HasKey(d, key) == Tag(key) = "str" /\ Val(key) \in DOMAIN Val(d)
Get(d, key) == Val(d)[Val(key)]
\* current[key] for a list and an int key already known to be in range
PyIndex(lst, k) == IF k >= 0 THEN Val(lst)[k + 1] ELSE Val(lst)[Len(Val(lst)) + k + 1]
\* `x in lst`
PyIn(x, lst) == \E i \in 1..Len(Val(lst)) : Val(lst)[i] = x
Reverse(s) == [i \in 1..Len(s) |-> s[Len(s) + 1 - i]]

RECURSIVE matches_criteria_MissingKeyPasses(_, _)
matches_criteria_MissingKeyPasses(item, criteria) ==
    IF ~IsDict(item) \/ ~IsDict(criteria)
    THEN item = criteria
    ELSE \A k \in DOMAIN Val(criteria) :
            LET v == Val(criteria)[k] IN
            k \in DOMAIN Val(item) =>
               IF IsDict(v) THEN matches_criteria_MissingKeyPasses(Val(item)[k], v)
               ELSE IF IsList(v) THEN PyIn(Val(item)[k], v)
               ELSE Val(item)[k] = v

\* matches_criteria(item, criteria)
RECURSIVE matches_criteria(_, _)
matches_criteria(item, criteria) ==
    IF ~IsDict(item) \/ ~IsDict(criteria)
    THEN item = criteria
    ELSE \A k \in DOMAIN Val(criteria) :
            LET v == Val(criteria)[k] IN
            /\ k \in DOMAIN Val(item)
            /\ IF IsDict(v) THEN matches_criteria(Val(item)[k], v)
               ELSE IF IsList(v) THEN PyIn(Val(item)[k], v)
               ELSE Val(item)[k] = v

\* `subindex` when it is None (a set subindex is >= 0)
None == -1

RECURSIVE traverse(_, _, _, _)

\* line 167: the one frame a tuple key appends, carrying what traverse finds
\* for the tuple, read as one path, in current
BranchFrames(current, index, key) ==
    << <<traverse(current, <<Val(key)>>, Null, FALSE), index + 1, None>> >>

FallbackFrames_Unreversed(current, index, key) ==
    [j \in 1..Len(Val(key)) |-> <<current, index, j - 1>>]

FallbackFrames_FirstOnly(current, index, key) ==
    IF Val(key) = << >> THEN << >> ELSE << <<current, index, 0>> >>

\* lines 171-172: one frame per entry of a list key, the last entry first
FallbackFrames(current, index, key) ==
    [j \in 1..Len(Val(key)) |-> <<current, index, Len(Val(key)) - j>>]

IndexInRange_NoNegative(current, key) ==
    0 <= Val(key) /\ Val(key) < Len(Val(current))

IndexInRange_Exclusive(current, key) ==
    -Len(Val(current)) < Val(key) /\ Val(key) < Len(Val(current))

\* line 176
IndexInRange(current, key) ==
    -Len(Val(current)) <= Val(key) /\ Val(key) < Len(Val(current))

ListIndexFrames_FromIndex(current, index, key) ==
    IF IndexInRange(current, key)
    THEN LET n == Len(Val(current))
             first == IF Val(key) >= 0 THEN Val(key) + 1 ELSE n + Val(key) + 1
         IN  [j \in 1..(n - first + 1) |-> <<Val(current)[n + 1 - j], index + 1, None>>]
    ELSE << >>

\* lines 176-177
ListIndexFrames(current, index, key) ==
    IF IndexInRange(current, key)
    THEN << <<PyIndex(current, Val(key)), index + 1, None>> >>
    ELSE << >>

ListFilterFrames_Unreversed(current, index, key) ==
    LET sel == SelectSeq(Val(current), LAMBDA item : matches_criteria(item, key))
    IN  [j \in 1..Len(sel) |-> <<sel[j], index + 1, None>>]

\* lines 179-181
ListFilterFrames(current, index, key) ==
    LET sel == SelectSeq(Reverse(Val(current)), LAMBDA item : matches_criteria(item, key))
    IN  [j \in 1..Len(sel) |-> <<sel[j], index + 1, None>>]

ListKeyFrames_Unreversed(current, index, key) ==
    LET sel == SelectSeq(Val(current), LAMBDA item : IsDict(item) /\ HasKey(item, key))
    IN  [j \in 1..Len(sel) |-> <<Get(sel[j], key), index + 1, None>>]

ListKeyFrames_FirstOnly(current, index, key) ==
    LET sel == SelectSeq(Val(current), LAMBDA item : IsDict(item) /\ HasKey(item, key))
    IN  IF sel = << >> THEN << >> ELSE << <<Get(sel[1], key), index + 1, None>> >>

\* lines 183-185
ListKeyFrames(current, index, key) ==
    LET sel == SelectSeq(Reverse(Val(current)),
                         LAMBDA item : IsDict(item) /\ HasKey(item, key))
    IN  [j \in 1..Len(sel) |-> <<Get(sel[j], key), index + 1, None>>]

DictFilterFrames_Project(current, index, key) ==
    IF matches_criteria(current, key)
    THEN << <<PyDict([k \in DOMAIN Val(key) |-> Val(current)[k]]), index + 1, None>> >>
    ELSE << >>

\* lines 188-190 (current is no list here; it need not be a dict)
DictFilterFrames(current, index, key) ==
    IF matches_criteria(current, key)
    THEN << <<current, index + 1, None>> >>
    ELSE << >>

DictKeyFrames_SameIndex(current, index, key) ==
    IF HasKey(current, key)
    THEN << <<Get(current, key), index, None>> >>
    ELSE << >>

\* lines 192-194
DictKeyFrames(current, index, key) ==
    IF HasKey(current, key)
    THEN << <<Get(current, key), index + 1, None>> >>
    ELSE << >>

\* lines 166-194: the frames one iteration appends to the stack, in append order
Pushed(current, index, key) ==
    IF Tag(key) = "tuple" THEN BranchFrames(current, index, key)
    ELSE IF Tag(key) = "list" THEN FallbackFrames(current, index, key)
    ELSE IF IsList(current)
    THEN IF Tag(key) = "int" THEN ListIndexFrames(current, index, key)
         ELSE IF Tag(key) = "dict" THEN ListFilterFrames(current, index, key)
         ELSE ListKeyFrames(current, index, key)
    ELSE IF Tag(key) = "dict" THEN DictFilterFrames(current, index, key)
    ELSE IF IsDict(current) THEN DictKeyFrames(current, index, key)
    ELSE << >>

Extended_Reversed(rest, results, new) ==
    IF Len(new) = 1 /\ IsRaised(new[1][1])
    THEN [kind |-> "raise", stack |-> rest, results |-> results, val |-> new[1][1]]
    ELSE [kind |-> "cont", stack |-> rest \o Reverse(new), results |-> results, val |-> Null]

\* lines 166-194 seen from the loop: the frames appended to what is left of the
\* stack, or the exception the iteration raises
Extended(rest, results, new) ==
    IF Len(new) = 1 /\ IsRaised(new[1][1])
    THEN [kind |-> "raise", stack |-> rest, results |-> results, val |-> new[1][1]]
    ELSE [kind |-> "cont", stack |-> rest \o new, results |-> results, val |-> Null]

EndOfPath_RecordsNull(rest, results, current, get_all) ==
    IF get_all
    THEN [kind |-> "cont", stack |-> rest,
          results |-> Append(results, current), val |-> Null]
    ELSE [kind |-> "return", stack |-> rest, results |-> results, val |-> current]

\* lines 153-159: the frame popped is at the end of the path
EndOfPath(rest, results, current, get_all) ==
    IF current # Null
    THEN IF get_all
         THEN [kind |-> "cont", stack |-> rest,
               results |-> Append(results, current), val |-> Null]
         ELSE [kind |-> "return", stack |-> rest, results |-> results, val |-> current]
    ELSE [kind |-> "cont", stack |-> rest, results |-> results, val |-> Null]

\* one iteration of `while stack:` on a non-empty stack.  kind is "cont" (the
\* loop goes on), "return" (return current) or "raise" (an exception leaves
\* traverse).
StepFrame(stack, path, results, get_all) ==
    LET top == stack[Len(stack)]
        rest == SubSeq(stack, 1, Len(stack) - 1)
        current == top[1]
        index == top[2]
        subindex == top[3]
    IN  IF index >= Len(path)
        THEN EndOfPath(rest, results, current, get_all)
        ELSE IF subindex # None /\ subindex >= Len(Val(path[index + 1]))
        THEN [kind |-> "raise", stack |-> rest, results |-> results,
              val |-> Raised("IndexError")]
        ELSE Extended(rest, results,
                      Pushed(current, index,
                             IF subindex # None
                             THEN Val(path[index + 1])[subindex + 1]
                             ELSE path[index + 1]))

\* `while stack:` run to its end
RECURSIVE RunStack(_, _, _, _)
Continued(s, path, get_all) ==
    IF s.kind = "cont" THEN RunStack(s.stack, path, s.results, get_all) ELSE s

RunStack(stack, path, results, get_all) ==
    IF stack = << >>
    THEN [kind |-> "cont", stack |-> stack, results |-> results, val |-> Null]
    ELSE CHOOSE r \in {Continued(s, path, get_all) :
                        s \in {StepFrame(stack, path, results, get_all)}} : TRUE

AfterPath_AnyMode(get_all, results) == results # << >>

\* line 196: whether traverse returns results[0] once a path's stack is empty
AfterPath(get_all, results) == ~get_all /\ results # << >>

\* line 199: the value traverse returns after the last path
FinalResult(results, default) == IF results # << >> THEN PyList(results) ELSE default

\* `for path in paths:` from path number p on
RECURSIVE PathLoop(_, _, _, _, _, _)
\* lines 196-197 after the stack of path p has run to r
NextPath(r, obj, paths, p, default, get_all) ==
    IF r.kind # "cont" THEN r.val
    ELSE IF AfterPath(get_all, r.results) THEN r.results[1]
    ELSE PathLoop(obj, paths, p + 1, r.results, default, get_all)

PathLoop(obj, paths, p, results, default, get_all) ==
    IF p > Len(paths)
    THEN FinalResult(results, default)
    ELSE CHOOSE v \in {NextPath(r, obj, paths, p, default, get_all) :
                        r \in {RunStack(<< <<obj, 0, None>> >>, paths[p], results, get_all)}} : TRUE

\* traverse(obj, *paths, default=default, get_all=get_all)
traverse(obj, paths, default, get_all) ==
    IF obj = Null THEN default ELSE PathLoop(obj, paths, 1, << >>, default, get_all)

\* `if x:` / `while x:` on a Python value
Truthy(v) ==
    IF Tag(v) = "null" THEN FALSE
    ELSE IF Tag(v) = "int" THEN Val(v) # 0
    ELSE IF Tag(v) = "str" THEN Val(v) # ""
    ELSE IF Tag(v) \in {"list", "tuple"} THEN Val(v) # << >>
    ELSE IF Tag(v) = "dict" THEN DOMAIN Val(v) # {}
    ELSE TRUE

\* safe_request(..., fatal=fatal): outcome is what the server does with the
\* request: a parsed JSON body, or Raised(e) when requests / raise_for_status raise
safe_request(outcome, fatal) ==
    IF IsRaised(outcome)
    THEN IF fatal THEN outcome ELSE Null
    ELSE outcome

FatalOff == FALSE

\* the default of safe_request's `fatal`
FatalDefault == TRUE

WithCursor_Dropped(params, cursor) == params

\* {**params, 'cursor': cursor}
WithCursor(params, cursor) ==
    PyDict([k \in DOMAIN Val(params) \cup {"cursor"} |->
              IF k = "cursor" THEN cursor ELSE Val(params)[k]])

(***************************************************************************)
(* State.                                                                  *)
(***************************************************************************)
VARIABLES
    \* one call of traverse, run one loop iteration at a time
    obj, paths, default, get_all,   \* the arguments of the call
    pathNo,                         \* `for path in paths`: number of the path in hand
    stack, results,                 \* the locals of traverse
    pc,                             \* "idle", "call", "for", "while", "done", "raised"
    ret,                            \* the value returned (or the exception raised)
    \* one call of matches_criteria
    m_item, m_criteria, m_pc, m_ret,
    \* the server behind safe_request and the arguments of the page loops
    script,                         \* script[k]: what the k-th request of a call meets
    params, headers,
    \* one call of generic_page_loop_return
    c_pc,                           \* "idle", "fetch", "output", "cursor", "done", "raised"
    c_res, c_output, c_cursor, c_requests, c_ret,
    c_first,                        \* the first page, as it is in memory now
    \* one generator made by generic_page_loop, and its consumer
    s_pc,                           \* "idle", "created", "fetch", "output", "yield", "cursor", "done", "raised"
    s_running,                      \* the consumer is inside next(), the generator runs
    s_res, s_output, s_cursor, s_pos, s_requests, s_delivered, s_exc,
    \* one call of apply_writes_batch
    b_records,                      \* the argument of the call
    b_pc,                           \* "idle", "call", "for", "post", "done", "raised"
    b_i, b_writes, b_written,       \* the locals of apply_writes_batch
    b_posted,                       \* the writes of each apply_writes call so far
    b_ret

tvars == <<obj, paths, default, get_all, pathNo, stack, results, pc, ret>>
args == <<obj, paths, default, get_all>>
mvars == <<m_item, m_criteria, m_pc, m_ret>>
pvars == <<script, params, headers>>
cvars == <<c_pc, c_res, c_output, c_first, c_cursor, c_requests, c_ret>>
svars == <<s_pc, s_running, s_res, s_output, s_cursor, s_pos, s_requests, s_delivered,
          s_exc>>
bvars == <<b_records, b_pc, b_i, b_writes, b_written, b_posted, b_ret>>
vars == <<tvars, mvars, pvars, cvars, svars, bvars>>

TraverseIdle ==
    /\ obj = Null /\ paths = << >> /\ default = Null /\ get_all = FALSE
    /\ pathNo = 0 /\ stack = << >> /\ results = << >> /\ pc = "idle" /\ ret = Null
MatchIdle ==
    /\ m_item = Null /\ m_criteria = Null /\ m_pc = "idle" /\ m_ret = FALSE
PageIdle ==
    /\ script = << >> /\ params = Null /\ headers = Null
    /\ c_pc = "idle" /\ c_res = Null /\ c_output = Null /\ c_first = Null
    /\ c_cursor = Null /\ c_requests = << >> /\ c_ret = Null
    /\ s_pc = "idle" /\ s_running = FALSE /\ s_res = Null /\ s_output = Null
    /\ s_cursor = Null /\ s_pos = 0 /\ s_requests = << >> /\ s_delivered = << >> /\ s_exc = Null
BatchIdle ==
    /\ b_records = << >> /\ b_pc = "idle" /\ b_i = 0 /\ b_writes = << >>
    /\ b_written = << >> /\ b_posted = << >> /\ b_ret = Null

(***************************************************************************)
(* traverse: inputs and steps.                                             *)
(***************************************************************************)
MaxLen == 2

Keys == {"a", "b"}
Leaves == {Null, PyInt(1), PyInt(2)}
SeqsOver(S, n) == UNION {[1..m -> S] : m \in 0..n}
Recs == {PyDict(f) : f \in UNION {[K -> Leaves] : K \in SUBSET Keys}}
Elems == {Null, PyInt(1), PyDict([a |-> PyInt(1), b |-> PyInt(1)]),
          PyDict([a |-> PyInt(2), b |-> PyInt(2)]), PyDict([b |-> Null]),
          PyList(<<PyInt(2)>>)}
Lists == {PyList(s) : s \in SeqsOver(Elems, MaxLen)}
ShortLists == {PyList(s) : s \in SeqsOver(Elems, MaxLen - 1)}
Trees == Leaves \cup Recs \cup ShortLists
         \cup {PyDict([a |-> l]) : l \in Lists}
         \cup {PyDict([a |-> r, b |-> PyInt(1)]) : r \in Recs}

Criteria == {PyDict([a |-> PyInt(1)]), PyDict([a |-> PyList(<<PyInt(1), PyInt(2)>>)]),
             PyDict(EmptyMap)}
KeySegs == {PyStr(k) : k \in Keys}
Fallbacks == {PyList(<<PyStr("a"), PyStr("b")>>), PyList(<<PyStr("b"), PyStr("a")>>)}
Branches == {PyTuple(<<PyStr("a")>>), PyTuple(<<PyStr("a"), PyInt(0)>>)}
Segments == KeySegs \cup {PyInt(0), PyInt(-1)} \cup Criteria \cup Fallbacks \cup Branches
PairSegments == {PyStr("a"), PyStr("b"), PyInt(0), PyDict([a |-> PyInt(1)]),
                 PyList(<<PyStr("a"), PyStr("b")>>)}
Indexes == {PyInt(i) : i \in (0 - MaxLen - 1)..MaxLen}
Defaults == {Null, PyStr("default")}
\* one path of up to two segments, a filter between two keys, or two short paths
PathSets == {<<p>> : p \in SeqsOver(Segments, 2)}
            \cup {<<(<<PyStr("a"), c, PyStr("b")>>)>> : c \in Criteria}
            \cup {<<p, q>> : p \in SeqsOver(PairSegments, 1), q \in SeqsOver(PairSegments, 1)}
\* one path of Key and Index segments only
ChainPaths == SeqsOver(KeySegs \cup Indexes, 2)
              \cup SeqsOver(KeySegs \cup {PyInt(0), PyInt(-1)}, 3)

TraverseStart ==
    /\ default \in Defaults
    /\ get_all \in BOOLEAN
    /\ pathNo = 0
    /\ stack = << >>
    /\ results = << >>
    /\ pc = "call"
    /\ ret = Null
    /\ MatchIdle
    /\ PageIdle
    /\ BatchIdle

InitTraverse ==
    /\ obj \in Trees
    /\ paths \in PathSets
    /\ TraverseStart

InitChain ==
    /\ obj \in Trees
    /\ paths \in {<<p>> : p \in ChainPaths}
    /\ TraverseStart

\* traverse, lines 140-143
Call ==
    /\ pc = "call"
    /\ IF obj = Null
       THEN /\ pc' = "done"
            /\ ret' = default
       ELSE /\ pc' = "for"
            /\ ret' = ret
    /\ results' = << >>
    /\ UNCHANGED <<bvars, args, pathNo, stack, mvars, pvars, cvars, svars>>

\* traverse, lines 145-147 (the next path) and line 199 (no path is left)
ForPath ==
    /\ pc = "for"
    /\ IF pathNo < Len(paths)
       THEN /\ pathNo' = pathNo + 1
            /\ stack' = << <<obj, 0, None>> >>
            /\ pc' = "while"
            /\ ret' = ret
       ELSE /\ pc' = "done"
            /\ ret' = FinalResult(results, default)
            /\ UNCHANGED <<pathNo, stack>>
    /\ UNCHANGED <<bvars, args, results, mvars, pvars, cvars, svars>>

\* traverse, lines 149-194: one iteration of `while stack:`
WhileStep ==
    /\ pc = "while"
    /\ stack # << >>
    /\ \E s \in {StepFrame(stack, paths[pathNo], results, get_all)} :
          /\ stack' = s.stack
          /\ results' = s.results
          /\ pc' = IF s.kind = "cont" THEN "while"
                   ELSE IF s.kind = "return" THEN "done" ELSE "raised"
          /\ ret' = IF s.kind = "cont" THEN ret ELSE s.val
    /\ UNCHANGED <<bvars, args, pathNo, mvars, pvars, cvars, svars>>

\* traverse, lines 196-197: the stack of the path in hand is empty
WhileEnd ==
    /\ pc = "while"
    /\ stack = << >>
    /\ IF AfterPath(get_all, results)
       THEN /\ pc' = "done"
            /\ ret' = results[1]
       ELSE /\ pc' = "for"
            /\ ret' = ret
    /\ UNCHANGED <<bvars, args, pathNo, stack, results, mvars, pvars, cvars, svars>>

NextTraverse == Call \/ ForPath \/ WhileStep \/ WhileEnd

SpecTraverse == InitTraverse /\ [][NextTraverse]_vars

SpecChain == InitChain /\ [][NextTraverse]_vars

\* paths traverse makes no provision for: a list inside a list key (line 162,
\* "will only work one sublist deep") and a key that is none of str, int,
\* dict, list, tuple.  [[["a"]]] keeps the loop turning on one frame,
\* [["b", ["a"]]] and [["a", "b", ["b", "a"]]] run out, [None] and ["a", None]
\* find nothing.
NestedPaths == {<<PyList(<<PyList(<<PyStr("a")>>)>>)>>,
                <<PyList(<<PyStr("b"), PyList(<<PyStr("a")>>)>>)>>,
                <<PyList(<<PyStr("a"), PyStr("b"),
                           PyList(<<PyStr("b"), PyStr("a")>>)>>)>>}
OddKeyPaths == {<<Null>>, <<PyStr("a"), Null>>}

InitMalformed ==
    /\ obj \in Trees
    /\ paths \in {<<p>> : p \in NestedPaths \cup OddKeyPaths}
                \cup {<<(<<PyStr("b")>>), p>> : p \in NestedPaths}
    /\ TraverseStart

SpecMalformed == InitMalformed /\ [][NextTraverse]_vars

\* tuple keys: of keys, and of lists as a caller would write sub-paths
TupleSegs == Branches \cup {PyTuple(<<PyStr("a"), PyStr("b")>>),
                            PyTuple(<<PyList(<<PyStr("a")>>), PyList(<<PyStr("b")>>)>>),
                            PyTuple(<<PyList(<<PyStr("b")>>)>>)}

InitBranch ==
    /\ obj \in Trees
    /\ paths \in {<<p>> : p \in SeqsOver(TupleSegs \cup KeySegs, 2)}
    /\ TraverseStart

SpecBranch == InitBranch /\ [][NextTraverse]_vars

\* lists for a str key to be applied to: of scalars, of dicts with and without
\* the key, of a dict holding None under it, and of a list that holds a dict
KeySeqElems == {Null, PyInt(1), PyStr("a"),
                PyDict([a |-> PyInt(1), b |-> PyInt(1)]), PyDict([a |-> PyInt(2)]),
                PyDict([a |-> Null]), PyDict([b |-> PyInt(2)]),
                PyList(<<PyDict([a |-> PyInt(1)])>>)}
KeySeqLists == {PyList(s) : s \in SeqsOver(KeySeqElems, MaxLen)}

InitKeySeq ==
    /\ obj \in KeySeqLists \cup {PyDict([a |-> l]) : l \in KeySeqLists}
    /\ paths \in {<<p>> : p \in SeqsOver(KeySegs, 2)}
    /\ TraverseStart

SpecKeySeq == InitKeySeq /\ [][NextTraverse]_vars

\* one path of up to three Key and Index segments over the lists above
InitDepth ==
    /\ obj \in KeySeqLists \cup {PyDict([a |-> l]) : l \in KeySeqLists}
    /\ paths \in {<<p>> : p \in SeqsOver(KeySegs \cup {PyInt(0), PyInt(-1)}, 3)}
    /\ TraverseStart

SpecDepth == InitDepth /\ [][NextTraverse]_vars

\* value trees and path sets for the termination of traverse
TermTrees == Recs \cup ShortLists \cup {PyDict([a |-> l]) : l \in ShortLists}
             \cup {PyList(<<PyDict([a |-> PyInt(1), b |-> PyInt(1)]),
                            PyDict([a |-> PyInt(2), b |-> PyInt(2)])>>),
                    PyDict([a |-> PyList(<<PyDict([a |-> PyInt(1), b |-> PyInt(1)]),
                                           PyDict([a |-> PyInt(2), b |-> PyInt(2)])>>),
                            b |-> PyInt(1)])}
InitTerm ==
    /\ obj \in TermTrees
    /\ paths \in PathSets
    /\ TraverseStart

\* traverse runs in one thread that nothing suspends: a step that is possible
\* is taken
FairTraverse == InitTerm /\ [][NextTraverse]_vars /\ WF_vars(NextTraverse)

\* the loop, run one iteration at a time, returns what traverse returns
StepwiseIsTraverse == pc = "done" => ret = traverse(obj, paths, default, get_all)

(***************************************************************************)
(* matches_criteria: inputs and the call.                                  *)
(***************************************************************************)
ItemFields == {Null, PyInt(1), PyInt(2), PyList(<<PyInt(1)>>), PyDict(EmptyMap),
               PyDict([a |-> PyInt(1)]), PyDict([a |-> PyInt(1), b |-> PyInt(2)])}
MatchItems == ItemFields
              \cup {PyDict(f) : f \in UNION {[K -> ItemFields] : K \in SUBSET Keys}}
ExpectedFields == {Null, PyInt(1), PyInt(2), PyList(<< >>),
                   PyList(<<PyInt(1), PyInt(2)>>), PyList(<<PyList(<<PyInt(1)>>)>>),
                   PyDict(EmptyMap), PyDict([a |-> PyInt(1)]),
                   PyDict([b |-> PyList(<<PyInt(2)>>)])}
MatchCriteria == {Null, PyInt(1), PyList(<<PyInt(1)>>)}
                 \cup {PyDict(f) : f \in UNION {[K -> ExpectedFields] : K \in SUBSET Keys}}

InitMatch ==
    /\ m_item \in MatchItems
    /\ m_criteria \in MatchCriteria
    /\ m_pc = "call"
    /\ m_ret = FALSE
    /\ TraverseIdle
    /\ PageIdle
    /\ BatchIdle

\* matches_criteria, lines 108-125
MatchCall ==
    /\ m_pc = "call"
    /\ m_ret' = matches_criteria(m_item, m_criteria)
    /\ m_pc' = "done"
    /\ UNCHANGED <<bvars, m_item, m_criteria, tvars, pvars, cvars, svars>>

NextMatch == MatchCall

SpecMatch == InitMatch /\ [][NextMatch]_vars

(***************************************************************************)
(* The page loops: the server, the arguments, the steps.                   *)
(***************************************************************************)
MaxPages == 3
MaxItems == 2

\* the item list of page k: absent (-2), null (-1) or a list of n >= 0 items
ItemOptions == (0 - 2)..MaxItems
Items(k, n) == [j \in 1..n |-> PyInt(10 * k + j)]
Token(k) == PyStr("c" \o ToString(k))
\* the JSON body of page k; cursor is "absent", "null", "empty" or "token"
Page(k, items, cursor) ==
    PyDict([f \in (IF items = 0 - 2 THEN {} ELSE {"items"})
                  \cup (IF cursor = "absent" THEN {} ELSE {"cursor"}) |->
              IF f = "items"
              THEN IF items = 0 - 1 THEN Null ELSE PyList(Items(k, items))
              ELSE IF cursor = "null" THEN Null
                   ELSE IF cursor = "empty" THEN PyStr("") ELSE Token(k)])
HTTPError == Raised("HTTPError")
TokenPages(k) == {Page(k, i, "token") : i \in ItemOptions}
LastOutcomes(k) == {HTTPError}
                   \cup {Page(k, i, c) : i \in ItemOptions, c \in {"absent", "null", "empty"}}
\* what requests k..n meet: pages with a cursor token, then a page with none
\* (or with a null or empty one), or a failure
RECURSIVE ScriptsFrom(_, _)
ScriptsFrom(k, n) ==
    IF k = n THEN {<<o>> : o \in LastOutcomes(k)}
    ELSE {<<p>> \o rest : p \in TokenPages(k), rest \in ScriptsFrom(k + 1, n)}
Scripts == UNION {ScriptsFrom(1, n) : n \in 1..MaxPages}

\* path_to_output and path_to_cursor as the callers pass them
path_to_output == <<PyStr("items")>>
path_to_cursor == <<PyStr("cursor")>>

\* the params a caller passes, e.g. {'actor': actor} of get_followers
InitialParams == PyDict([actor |-> PyStr("did:plc:x")])

InitPage ==
    /\ script \in Scripts
    /\ params = InitialParams
    /\ headers \in {Null, PyDict([Authorization |-> PyStr("Bearer t")])}
    /\ c_pc = "fetch" /\ c_res = Null /\ c_output = Null /\ c_first = Null
    /\ c_cursor = Null /\ c_requests = << >> /\ c_ret = Null
    /\ s_pc = "created" /\ s_running = FALSE /\ s_res = Null /\ s_output = Null
    /\ s_cursor = Null /\ s_pos = 0 /\ s_requests = << >> /\ s_delivered = << >>
    /\ s_exc = Null
    /\ TraverseIdle
    /\ MatchIdle
    /\ BatchIdle

\* the request the loop sends: the first with params as given, a later one
\* with the cursor merged in
Request(n, cursor, hdrs) ==
    [params |-> IF n = 1 THEN params ELSE WithCursor(params, cursor), headers |-> hdrs]

\* generic_page_loop_return, lines 561 and 564
CollectFetch ==
    /\ c_pc = "fetch"
    /\ LET n == Len(c_requests) + 1
           res == safe_request(script[n], FatalDefault)
       IN  /\ c_requests' = Append(c_requests, Request(n, c_cursor, headers))
           /\ IF IsRaised(res)
              THEN /\ c_pc' = "raised"
                   /\ c_ret' = res
                   /\ UNCHANGED <<c_res, c_first>>
              ELSE /\ c_pc' = "output"
                   /\ c_res' = res
                   /\ c_first' = IF n = 1 THEN res ELSE c_first
                   /\ c_ret' = c_ret
    /\ UNCHANGED <<bvars, c_output, c_cursor, tvars, mvars, pvars, svars>>

\* generic_page_loop_return, lines 562 and 565.  What traverse returns is the
\* list inside the page, not a copy: output is the first page's own list, and
\* extend changes that page (c_first).  The pages of the model hold a list or
\* None at path_to_output.
CollectOutput ==
    /\ c_pc = "output"
    /\ LET found == traverse(c_res, <<path_to_output>>, Null, FALSE) IN
       IF Len(c_requests) = 1
       THEN /\ c_output' = found
            /\ c_pc' = "cursor"
            /\ UNCHANGED <<c_first, c_ret>>
       ELSE IF ~IsList(c_output)
       THEN /\ c_pc' = "raised"
            /\ c_ret' = Raised("AttributeError")
            /\ UNCHANGED <<c_output, c_first>>
       ELSE IF ~IsList(found)
       THEN /\ c_pc' = "raised"
            /\ c_ret' = Raised("TypeError")
            /\ UNCHANGED <<c_output, c_first>>
       ELSE /\ c_output' = PyList(Val(c_output) \o Val(found))
            /\ c_first' = PyDict([Val(c_first) EXCEPT !["items"] = c_output'])
            /\ c_pc' = "cursor"
            /\ c_ret' = c_ret
    /\ UNCHANGED <<bvars, c_res, c_cursor, c_requests, tvars, mvars, pvars, svars>>

CollectCursor_InPlace ==
    /\ c_pc = "cursor"
    /\ LET cursor == traverse(c_res, <<path_to_cursor>>, Null, FALSE) IN
       IF Truthy(cursor)
       THEN /\ c_cursor' = cursor
            /\ params' = WithCursor(params, cursor)
            /\ c_pc' = "fetch"
            /\ c_ret' = c_ret
       ELSE /\ c_pc' = "done"
            /\ c_ret' = c_output
            /\ UNCHANGED <<c_cursor, params>>
    /\ UNCHANGED <<bvars, c_res, c_output, c_first, c_requests, tvars, mvars, script, headers,
                   svars>>

\* generic_page_loop_return, lines 563 and 566
CollectCursor ==
    /\ c_pc = "cursor"
    /\ LET cursor == traverse(c_res, <<path_to_cursor>>, Null, FALSE) IN
       IF Truthy(cursor)
       THEN /\ c_cursor' = cursor
            /\ c_pc' = "fetch"
            /\ c_ret' = c_ret
       ELSE /\ c_pc' = "done"
            /\ c_ret' = c_output
            /\ c_cursor' = c_cursor
    /\ UNCHANGED <<bvars, c_res, c_output, c_first, c_requests, tvars, mvars, pvars, svars>>

CollectOver == c_pc \in {"done", "raised"}

\* the consumer asks the generator for the next item: the body starts, or
\* goes on after the yield it was suspended at
ConsumerNext ==
    /\ CollectOver
    /\ ~s_running
    /\ s_pc \in {"created", "yield"}
    /\ s_running' = TRUE
    /\ s_pc' = IF s_pc = "created" THEN "fetch" ELSE s_pc
    /\ UNCHANGED <<bvars, s_res, s_output, s_cursor, s_pos, s_requests, s_delivered, s_exc,
                   tvars, mvars, pvars, cvars>>

\* generic_page_loop, lines 550 (no headers passed) and 555
StreamFetch ==
    /\ s_running
    /\ s_pc = "fetch"
    /\ LET n == Len(s_requests) + 1
           res == safe_request(script[n], FatalDefault)
       IN  /\ s_requests' = Append(s_requests,
                                   Request(n, s_cursor, IF n = 1 THEN Null ELSE headers))
           /\ IF IsRaised(res)
              THEN /\ s_pc' = "raised"
                   /\ s_exc' = res
                   /\ s_running' = FALSE
                   /\ s_res' = s_res
              ELSE /\ s_pc' = "output"
                   /\ s_res' = res
                   /\ UNCHANGED <<s_exc, s_running>>
    /\ UNCHANGED <<bvars, s_output, s_cursor, s_pos, s_delivered, tvars, mvars, pvars, cvars>>

\* generic_page_loop, lines 551 and 556
StreamOutput ==
    /\ s_running
    /\ s_pc = "output"
    /\ s_output' = traverse(s_res, <<path_to_output>>, Null, FALSE)
    /\ s_pos' = 0
    /\ s_pc' = "yield"
    /\ UNCHANGED <<bvars, s_running, s_res, s_cursor, s_requests, s_delivered, s_exc,
                   tvars, mvars, pvars, cvars>>

StreamYield_NoSuspend ==
    /\ s_running
    /\ s_pc = "yield"
    /\ IF ~IsList(s_output)
       THEN /\ s_pc' = "raised"
            /\ s_exc' = Raised("TypeError")
            /\ s_running' = FALSE
            /\ UNCHANGED <<s_pos, s_delivered>>
       ELSE IF s_pos < Len(Val(s_output))
       THEN /\ s_delivered' = Append(s_delivered, Val(s_output)[s_pos + 1])
            /\ s_pos' = s_pos + 1
            /\ UNCHANGED <<s_pc, s_exc, s_running>>
       ELSE /\ s_pc' = "cursor"
            /\ UNCHANGED <<s_pos, s_delivered, s_exc, s_running>>
    /\ UNCHANGED <<bvars, s_res, s_output, s_cursor, s_requests, tvars, mvars, pvars, cvars>>

\* generic_page_loop, lines 552 and 557: `yield from output` hands over the
\* next item and suspends, or is through with output
StreamYield ==
    /\ s_running
    /\ s_pc = "yield"
    /\ IF ~IsList(s_output)
       THEN /\ s_pc' = "raised"
            /\ s_exc' = Raised("TypeError")
            /\ s_running' = FALSE
            /\ UNCHANGED <<s_pos, s_delivered>>
       ELSE IF s_pos < Len(Val(s_output))
       THEN /\ s_delivered' = Append(s_delivered, Val(s_output)[s_pos + 1])
            /\ s_pos' = s_pos + 1
            /\ s_running' = FALSE
            /\ UNCHANGED <<s_pc, s_exc>>
       ELSE /\ s_pc' = "cursor"
            /\ UNCHANGED <<s_pos, s_delivered, s_exc, s_running>>
    /\ UNCHANGED <<bvars, s_res, s_output, s_cursor, s_requests, tvars, mvars, pvars, cvars>>

\* generic_page_loop, line 554
StreamCursor ==
    /\ s_running
    /\ s_pc = "cursor"
    /\ LET cursor == traverse(s_res, <<path_to_cursor>>, Null, FALSE) IN
       IF Truthy(cursor)
       THEN /\ s_cursor' = cursor
            /\ s_pc' = "fetch"
            /\ s_running' = s_running
       ELSE /\ s_pc' = "done"
            /\ s_running' = FALSE
            /\ s_cursor' = s_cursor
    /\ UNCHANGED <<bvars, s_res, s_output, s_pos, s_requests, s_delivered, s_exc,
                   tvars, mvars, pvars, cvars>>

NextPage ==
    \/ CollectFetch \/ CollectOutput \/ CollectCursor
    \/ ConsumerNext \/ StreamFetch \/ StreamOutput \/ StreamYield \/ StreamCursor

SpecPage == InitPage /\ [][NextPage]_vars

(***************************************************************************)
(* apply_writes_batch.  A record is a mapping with the fields type and     *)
(* rkey; a '$type' is held as the sequence of its parts between '#'.       *)
(***************************************************************************)
BatchSize == 200
MaxRecords == 401

ApplyWrites == "com.atproto.repo.applyWrites"
\* record number k of a call: every third one is an applyWrites record itself
RecordNo(k) ==
    IF k % 3 = 0
    THEN [type |-> <<ApplyWrites, "delete">>, rkey |-> k]
    ELSE [type |-> <<"app.bsky.feed.post">>, rkey |-> k]
RecordLists == {[k \in 1..n |-> RecordNo(k)] : n \in 0..MaxRecords}

\* lines 964-972: the write appended for a record
AsWrite(record) ==
    IF record.type[1] = ApplyWrites
    THEN record
    ELSE [type |-> <<ApplyWrites, "create">>, collection |-> record.type, value |-> record]

FlushDue_FullOnly(i, n) == i % BatchSize = 0

\* line 973
FlushDue(i, n) == (i % BatchSize = 0) \/ (i = n)

\* lines 903-911 on the response to call number c: the server names a cid and
\* a uri for every write
zip_apply_writes(c, writes) ==
    [j \in DOMAIN writes |-> [cid |-> <<c, j>>, uri |-> <<c, j>>, record |-> writes[j]]]

InitBatch ==
    /\ b_records \in RecordLists
    /\ b_pc = "call"
    /\ b_i = 0 /\ b_writes = << >> /\ b_written = << >> /\ b_posted = << >>
    /\ b_ret = Null
    /\ TraverseIdle
    /\ MatchIdle
    /\ PageIdle

\* lines 959-962
BatchCall ==
    /\ b_pc = "call"
    /\ b_pc' = IF Len(b_records) = 0 THEN "done" ELSE "for"
    /\ UNCHANGED <<b_records, b_i, b_writes, b_written, b_posted, b_ret,
                   tvars, mvars, pvars, cvars, svars>>

\* lines 963-973 and 977: one turn of `for i, record in enumerate(records, 1):`
BatchAppend ==
    /\ b_pc = "for"
    /\ IF b_i < Len(b_records)
       THEN /\ b_i' = b_i + 1
            /\ b_writes' = Append(b_writes, AsWrite(b_records[b_i + 1]))
            /\ b_pc' = IF FlushDue(b_i + 1, Len(b_records)) THEN "post" ELSE "for"
            /\ b_ret' = b_ret
       ELSE /\ b_pc' = "done"
            /\ b_ret' = b_written
            /\ UNCHANGED <<b_i, b_writes>>
    /\ UNCHANGED <<b_records, b_written, b_posted, tvars, mvars, pvars, cvars, svars>>

\* lines 974-975 with apply_writes, lines 940-956: the request is answered, or
\* safe_request raises
BatchPost ==
    /\ b_pc = "post"
    /\ b_posted' = Append(b_posted, b_writes)
    /\ \E answered \in BOOLEAN :
          IF answered
          THEN /\ b_written' = Append(b_written,
                                      zip_apply_writes(Len(b_posted) + 1, b_writes))
               /\ b_writes' = << >>
               /\ b_pc' = "for"
               /\ b_ret' = b_ret
          ELSE /\ b_pc' = "raised"
               /\ b_ret' = safe_request(Raised("HTTPError"), FatalDefault)
               /\ UNCHANGED <<b_written, b_writes>>
    /\ UNCHANGED <<b_records, b_i, tvars, mvars, pvars, cvars, svars>>

NextBatch == BatchCall \/ BatchAppend \/ BatchPost

SpecBatch == InitBatch /\ [][NextBatch]_vars

(***************************************************************************)
(* Reference definitions the properties are stated with.  They are written *)
(* from the statements, by structural recursion on the path, with no stack.*)
(***************************************************************************)
Minimum(S) == CHOOSE i \in S : \A j \in S : i <= j

\* the Criteria Matcher as described: subset match of a mapping
RECURSIVE RefMatches(_, _)
RefMatches(element, criteria) ==
    IF ~IsDict(criteria)
    THEN element = criteria
    ELSE /\ IsDict(element)
         /\ \A key \in DOMAIN Val(criteria) :
              LET expected == Val(criteria)[key] IN
              /\ key \in DOMAIN Val(element)
              /\ LET actual == Val(element)[key] IN
                 IF IsDict(expected) THEN RefMatches(actual, expected)
                 ELSE IF IsList(expected)
                      THEN \E i \in DOMAIN Val(expected) : Val(expected)[i] = actual
                      ELSE actual = expected

RECURSIVE Flatten(_)
Flatten(ss) == IF ss = << >> THEN << >> ELSE Head(ss) \o Flatten(Tail(ss))

\* the ordered matches of one path in v: every way through the alternatives
\* of the path that ends in a non-null value, leftmost alternative first
RECURSIVE RefEval(_, _)
RECURSIVE RefSeg(_, _, _)
RefEval(v, path) ==
    IF path = << >>
    THEN IF v = Null THEN << >> ELSE <<v>>
    ELSE RefSeg(v, Head(path), Tail(path))

RefFirst(v, path) ==
    IF v = Null THEN Null
    ELSE LET m == RefEval(v, path) IN IF m = << >> THEN Null ELSE m[1]

RefSeg(v, seg, rest) ==
    IF Tag(seg) = "tuple" THEN RefEval(RefFirst(v, Val(seg)), rest)
    ELSE IF Tag(seg) = "list"
    THEN Flatten([j \in DOMAIN Val(seg) |-> RefSeg(v, Val(seg)[j], rest)])
    ELSE IF IsList(v)
    THEN LET n == Len(Val(v)) IN
         IF Tag(seg) = "int"
         THEN IF 0 <= Val(seg) /\ Val(seg) < n THEN RefEval(Val(v)[Val(seg) + 1], rest)
              ELSE IF -n <= Val(seg) /\ Val(seg) < 0
                   THEN RefEval(Val(v)[n + Val(seg) + 1], rest)
                   ELSE << >>
         ELSE IF Tag(seg) = "dict"
         THEN Flatten([j \in 1..n |->
                  IF RefMatches(Val(v)[j], seg) THEN RefEval(Val(v)[j], rest) ELSE << >>])
         ELSE Flatten([j \in 1..n |->
                  IF IsDict(Val(v)[j]) /\ Tag(seg) = "str" /\ Val(seg) \in DOMAIN Val(Val(v)[j])
                  THEN RefEval(Val(Val(v)[j])[Val(seg)], rest) ELSE << >>])
    ELSE IF Tag(seg) = "dict"
    THEN IF RefMatches(v, seg) THEN RefEval(v, rest) ELSE << >>
    ELSE IF IsDict(v) /\ Tag(seg) = "str" /\ Val(seg) \in DOMAIN Val(v)
    THEN RefEval(Val(v)[Val(seg)], rest)
    ELSE << >>

\* the number of the earliest path with a match, 0 when no path has one
EarliestMatching(v, ps) ==
    LET S == {i \in DOMAIN ps : RefEval(v, ps[i]) # << >>}
    IN  IF S = {} THEN 0 ELSE Minimum(S)

AllMatches(v, ps) == Flatten([i \in DOMAIN ps |-> RefEval(v, ps[i])])

Returned == pc = "done"

(***************************************************************************)
(* Properties of traverse.                                                 *)
(***************************************************************************)

\* C3 as stated: with get_all, traverse returns the matches of the earliest
\* path that has a match, and nothing of a later path; the default when no
\* path has a match.
C3_OnlyEarliestPath ==
    (Returned /\ get_all) =>
        LET e == EarliestMatching(obj, paths) IN
        ret = IF e = 0 THEN default ELSE PyList(RefEval(obj, paths[e]))

\* C3 amended: with get_all, traverse returns the matches of every path of
\* the set, concatenated in the order of the paths and each path's matches in
\* their own order; the default when no path has a match.
C3_AllPathsMerged ==
    (Returned /\ get_all) =>
        LET all == AllMatches(obj, paths) IN
        ret = IF all = << >> THEN default ELSE PyList(all)

C3_Witness ==
    /\ Returned /\ get_all /\ Len(paths) = 2
    /\ RefEval(obj, paths[1]) # << >>
    /\ RefEval(obj, paths[2]) # << >>
    /\ ret = PyList(RefEval(obj, paths[1]) \o RefEval(obj, paths[2]))

\* C4: without get_all, traverse returns the first match of the earliest
\* path that has a match; a later path is taken up only when no earlier path
\* has a match; the default is returned exactly when no path has a match
\* (a None root included).
C4_FirstMatchOfEarliestPath ==
    LET e == EarliestMatching(obj, paths) IN
    /\ (Returned /\ ~get_all) =>
          /\ ret = IF e = 0 THEN default ELSE RefEval(obj, paths[e])[1]
          /\ (ret = default) <=> (e = 0)
          /\ obj = Null => ret = default
    /\ (~get_all /\ pathNo >= 1) =>
          \A q \in 1..(pathNo - 1) : RefEval(obj, paths[q]) = << >>

C4_Witness ==
    /\ Returned /\ ~get_all /\ Len(paths) = 2 /\ pathNo = 2
    /\ RefEval(obj, paths[1]) = << >>
    /\ Len(RefEval(obj, paths[2])) >= 2
    /\ ret = RefEval(obj, paths[2])[1]

\* plain chained access v[p1][p2]...[pn], the default as soon as a Key meets
\* anything but a Mapping holding it, or an Index anything but a Sequence it
\* lies in the range of
RECURSIVE ChainedAccess(_, _, _)
ChainedAccess(v, p, dflt) ==
    IF p = << >> THEN v
    ELSE LET seg == Head(p) IN
         IF Tag(seg) = "str"
         THEN IF IsDict(v) /\ Val(seg) \in DOMAIN Val(v)
              THEN ChainedAccess(Val(v)[Val(seg)], Tail(p), dflt)
              ELSE dflt
         ELSE IF IsList(v) /\ -Len(Val(v)) <= Val(seg) /\ Val(seg) < Len(Val(v))
              THEN ChainedAccess(Val(v)[IF Val(seg) >= 0 THEN Val(seg) + 1
                                        ELSE Len(Val(v)) + Val(seg) + 1], Tail(p), dflt)
              ELSE dflt

\* along the chain, a Key segment is applied to a Sequence
RECURSIVE KeyMeetsSequence(_, _)
KeyMeetsSequence(v, p) ==
    IF p = << >> THEN FALSE
    ELSE LET seg == Head(p) IN
         IF Tag(seg) = "str"
         THEN IF IsList(v) THEN TRUE
              ELSE IF IsDict(v) /\ Val(seg) \in DOMAIN Val(v)
                   THEN KeyMeetsSequence(Val(v)[Val(seg)], Tail(p))
                   ELSE FALSE
         ELSE IF IsList(v) /\ -Len(Val(v)) <= Val(seg) /\ Val(seg) < Len(Val(v))
              THEN KeyMeetsSequence(Val(v)[IF Val(seg) >= 0 THEN Val(seg) + 1
                                           ELSE Len(Val(v)) + Val(seg) + 1], Tail(p))
              ELSE FALSE

IsChain(p) == \A i \in DOMAIN p : Tag(p[i]) \in {"str", "int"}
OneChain == ~get_all /\ Len(paths) = 1 /\ IsChain(paths[1])

\* C5 as stated: for a path of Key and Index segments, traverse returns what
\* plain chained access returns (read in the claim's favour where the chain
\* ends in None: None counts as the default, as it is with default=None).
C5_ChainedAccess ==
    (Returned /\ OneChain) =>
        LET c == ChainedAccess(obj, paths[1], default) IN
        ret = IF c = Null THEN default ELSE c

\* C5 amended: for a path of Key and Index segments in which no Key segment
\* is applied to a Sequence, traverse returns what plain chained access
\* returns, and the default when chained access ends in None.
C5_ChainedAccessOffSequences ==
    (Returned /\ OneChain /\ ~KeyMeetsSequence(obj, paths[1])) =>
        LET c == ChainedAccess(obj, paths[1], default) IN
        ret = IF c = Null THEN default ELSE c

C5_Witness ==
    /\ Returned /\ OneChain /\ Len(paths[1]) = 3
    /\ ~KeyMeetsSequence(obj, paths[1])
    /\ Tag(paths[1][2]) = "int"
    /\ ret = PyInt(2) /\ default = Null

\* the Sequence an Index segment that ends the path is applied to, when the
\* path is [i] or ["a", i]; Null when the path has no such shape
IndexedSequence ==
    IF Len(paths) # 1 THEN Null
    ELSE LET p == paths[1] IN
         IF Len(p) = 1 /\ Tag(p[1]) = "int" /\ IsList(obj) THEN obj
         ELSE IF /\ Len(p) = 2 /\ p[1] = PyStr("a") /\ Tag(p[2]) = "int"
                 /\ IsDict(obj) /\ "a" \in DOMAIN Val(obj) /\ IsList(Val(obj)["a"])
              THEN Val(obj)["a"]
              ELSE Null
LastIndex == Val(paths[1][Len(paths[1])])
OrDefault(x) == IF x = Null THEN default ELSE x

\* C6: an Index i on a Sequence s of length n selects s[i] when 0 <= i < n and
\* s[n+i] when -n <= i < 0; any other i (any i on an empty Sequence) is no
\* match and no error, so traverse returns the default.
C6_IndexBoundsChecked ==
    /\ pc # "raised"
    /\ (Returned /\ ~get_all /\ IndexedSequence # Null) =>
          LET s == Val(IndexedSequence)
              n == Len(s)
              i == LastIndex
          IN  ret = IF 0 <= i /\ i < n THEN OrDefault(s[i + 1])
                    ELSE IF -n <= i /\ i < 0 THEN OrDefault(s[n + i + 1])
                    ELSE default

C6_Witness ==
    /\ Returned /\ ~get_all /\ IndexedSequence # Null
    /\ LastIndex = -Len(Val(IndexedSequence))
    /\ Len(Val(IndexedSequence)) = MaxLen
    /\ ret = Val(IndexedSequence)[1] /\ ret # default

\* the Mapping a Fallback segment that ends the path is applied to, when the
\* path is [fallback] or [k, fallback]; Null when the path has no such shape
FallbackMapping ==
    IF Len(paths) # 1 THEN Null
    ELSE LET p == paths[1] IN
         IF Len(p) = 1 /\ Tag(p[1]) = "list" /\ IsDict(obj) THEN obj
         ELSE IF /\ Len(p) = 2 /\ Tag(p[1]) = "str" /\ Tag(p[2]) = "list"
                 /\ IsDict(obj) /\ Val(p[1]) \in DOMAIN Val(obj)
                 /\ IsDict(Val(obj)[Val(p[1])])
              THEN Val(obj)[Val(p[1])]
              ELSE Null
Alternatives == Val(paths[1][Len(paths[1])])
\* the numbers of the listed keys present in d / present with a non-null value
Present(d) == {j \in DOMAIN Alternatives : Val(Alternatives[j]) \in DOMAIN Val(d)}
PresentNonNull(d) == {j \in Present(d) : Val(d)[Val(Alternatives[j])] # Null}

\* C7 as stated: without get_all, a path ending in a Fallback [k1..km] applied
\* to a Mapping returns the value of the first listed ki present with a
\* non-null value, and the default only if no ki is present.
C7_DefaultOnlyIfNonePresent ==
    (Returned /\ ~get_all /\ FallbackMapping # Null) =>
        LET d == FallbackMapping IN
        /\ PresentNonNull(d) # {} =>
              ret = Val(d)[Val(Alternatives[Minimum(PresentNonNull(d))])]
        /\ ret = default => Present(d) = {}

\* C7 amended: ... returns the value of the first listed ki present with a
\* non-null value, and the default exactly when no ki is present with a
\* non-null value.
C7_FirstListedNonNull ==
    (Returned /\ ~get_all /\ FallbackMapping # Null) =>
        LET d == FallbackMapping IN
        ret = IF PresentNonNull(d) = {} THEN default
              ELSE Val(d)[Val(Alternatives[Minimum(PresentNonNull(d))])]

C7_Witness ==
    /\ Returned /\ ~get_all /\ FallbackMapping # Null
    /\ Cardinality(PresentNonNull(FallbackMapping)) = 2
    /\ Alternatives = <<PyStr("b"), PyStr("a")>>
    /\ ret = Val(FallbackMapping)["b"]
    /\ ret # Val(FallbackMapping)["a"]

\* the Sequence a Filter segment is applied to when the one path is [c],
\* [k, c] or [k, c, "b"]; Null when the path has no such shape
FilteredSequence ==
    IF Len(paths) # 1 THEN Null
    ELSE LET p == paths[1] IN
         IF Len(p) = 1 /\ Tag(p[1]) = "dict" /\ IsList(obj) THEN obj
         ELSE IF /\ Len(p) \in {2, 3} /\ Tag(p[1]) = "str" /\ Tag(p[2]) = "dict"
                 /\ (Len(p) = 3 => p[3] = PyStr("b"))
                 /\ IsDict(obj) /\ Val(p[1]) \in DOMAIN Val(obj)
                 /\ IsList(Val(obj)[Val(p[1])])
              THEN Val(obj)[Val(p[1])]
              ELSE Null
FilterCriteria == IF Len(paths[1]) = 1 THEN paths[1][1] ELSE paths[1][2]
\* the elements of s that satisfy the matcher, each once, in the order of s
Kept(s, criteria) == SelectSeq(s, LAMBDA e : RefMatches(e, criteria))
\* the non-null "b" fields of the mappings of s, in the order of s
FieldB(s) == Flatten([j \in DOMAIN s |->
                 IF "b" \in DOMAIN Val(s[j]) /\ Val(s[j])["b"] # Null
                 THEN <<Val(s[j])["b"]>> ELSE << >>])

\* C9: a Filter applied to a Sequence goes on with exactly the elements that
\* satisfy the matcher, each once and in their order in the Sequence; with
\* get_all, [k, Filter(c), "b"] returns the b fields of exactly the kept
\* elements, in order.
C9_SequenceFilterKeepsOrder ==
    (Returned /\ get_all /\ FilteredSequence # Null) =>
        LET kept == Kept(Val(FilteredSequence), FilterCriteria)
            out == IF Len(paths[1]) = 3 THEN FieldB(kept) ELSE kept
        IN  ret = IF out = << >> THEN default ELSE PyList(out)

C9_Witness ==
    /\ Returned /\ get_all /\ FilteredSequence # Null
    /\ Len(paths[1]) = 3
    /\ FilterCriteria = PyDict([a |-> PyList(<<PyInt(1), PyInt(2)>>)])
    /\ ret = PyList(<<PyInt(2), PyInt(1)>>)

TopFrame == stack[Len(stack)]
TopKey ==
    LET seg == paths[pathNo][TopFrame[2] + 1] IN
    IF TopFrame[3] # None THEN Val(seg)[TopFrame[3] + 1] ELSE seg
\* the iteration about to run applies a Filter to a Mapping
FilterMeetsMapping ==
    /\ pc = "while" /\ stack # << >>
    /\ TopFrame[2] < Len(paths[pathNo])
    /\ Tag(TopKey) = "dict"
    /\ IsDict(TopFrame[1])

\* C10: a Filter applied to a Mapping passes or discards: when the Mapping
\* satisfies the criteria, the very same Mapping, with all its fields, is
\* carried to the next segment; when it does not, nothing is carried on.
C10_MappingFilterPassOrDiscard ==
    [][FilterMeetsMapping =>
          LET rest == SubSeq(stack, 1, Len(stack) - 1) IN
          /\ pc' = "while"
          /\ stack' = IF RefMatches(TopFrame[1], TopKey)
                      THEN Append(rest, <<TopFrame[1], TopFrame[2] + 1, None>>)
                      ELSE rest]_vars

C10_Witness ==
    /\ Returned /\ ~get_all
    /\ paths = << <<PyDict([a |-> PyInt(1)]), PyStr("b")>> >>
    /\ IsDict(obj) /\ DOMAIN Val(obj) = {"a", "b"}
    /\ ret = Val(obj)["b"] /\ ret = PyInt(2)

\* a segment is a list holding a list, or is none of the five kinds of key
IsNestedFallback(seg) ==
    Tag(seg) = "list" /\ \E j \in DOMAIN Val(seg) : Tag(Val(seg)[j]) = "list"
IsUnsupported(seg) == Tag(seg) \notin {"str", "int", "dict", "list", "tuple"}
Malformed(ps) ==
    \E i \in DOMAIN ps : \E j \in DOMAIN ps[i] :
        IsNestedFallback(ps[i][j]) \/ IsUnsupported(ps[i][j])
\* no segment has been applied yet: nothing is recorded and the stack holds
\* at most the root frame of the first path
NothingApplied ==
    /\ results = << >>
    /\ pathNo <= 1
    /\ stack \in {<< >>, << <<obj, 0, None>> >>}

\* C11: when a path of the set holds a nested Fallback or a segment of
\* unsupported shape, traverse of a tree fails with MalformedPath at its
\* start: it never returns (neither a match nor the default), never applies a
\* segment, and the only way it ends is by raising MalformedPath.  (Read in
\* the claim's favour for a None root, which line 140 answers with the
\* default before it looks at any path.)
C11_MalformedPathRaisedEagerly ==
    (Malformed(paths) /\ obj # Null) =>
        /\ pc # "done"
        /\ pc = "raised" => ret = Raised("MalformedPath")
        /\ pc # "raised" => NothingApplied

\* the iteration about to run applies a Branch (a tuple key)
BranchMeets ==
    /\ pc = "while" /\ stack # << >>
    /\ TopFrame[2] < Len(paths[pathNo])
    /\ Tag(TopKey) = "tuple"
\* an entry of a Branch as a sub-path: a list is a path, a bare key a path of one
SubPath(entry) == IF Tag(entry) = "list" THEN Val(entry) ELSE <<entry>>

\* C16: a Branch (p1, ..., pm) applied to a carried value pushes m frames, one
\* per sub-path, the frame of pi carrying the first match of pi in the carried
\* value (None when pi has none) at the next segment index.
C16_BranchPushesFramePerSubPath ==
    [][BranchMeets =>
          LET subs == Val(TopKey)
              new == SubSeq(stack', Len(stack), Len(stack'))
          IN  /\ pc' = "while"
              /\ SubSeq(stack', 1, Len(stack) - 1) = SubSeq(stack, 1, Len(stack) - 1)
              /\ Len(new) = Len(subs)
              /\ \A i \in DOMAIN subs : \E j \in DOMAIN new :
                    new[j] = <<RefFirst(TopFrame[1], SubPath(subs[i])),
                               TopFrame[2] + 1, None>>]_vars

\* the one path starts with a Fallback, applied to the Mapping obj
FallbackLeads ==
    /\ Len(paths) = 1 /\ paths[1] # << >>
    /\ Tag(paths[1][1]) = "list"
    /\ IsDict(obj)
LeadingAlternatives == Val(paths[1][1])
AfterFallback == Tail(paths[1])
\* what traverse returns when `matches` are the ordered matches of its paths
ResultOf(matches) ==
    IF matches = << >> THEN default
    ELSE IF get_all THEN PyList(matches) ELSE matches[1]

\* C17 as stated: a Fallback takes only the first listed alternative that is
\* present in the Mapping; in both modes the result is that of the path with
\* the Fallback replaced by this one key, and no later alternative adds to it.
C17_OnlyFirstPresentAlternative ==
    (Returned /\ FallbackLeads) =>
        LET alts == LeadingAlternatives
            here == {j \in DOMAIN alts : Val(alts[j]) \in DOMAIN Val(obj)}
        IN  ret = ResultOf(IF here = {} THEN << >>
                           ELSE RefEval(obj, <<alts[Minimum(here)]>> \o AfterFallback))

\* C17 amended: every alternative of a Fallback is followed through the rest
\* of the path, in listed order: with get_all each contributes its matches,
\* in listed order; without, the result is the first match so found, so that
\* a later alternative gives the result exactly when no earlier one leads to
\* a non-null value.
C17_AlternativesInListedOrder ==
    (Returned /\ FallbackLeads) =>
        LET alts == LeadingAlternatives IN
        ret = ResultOf(Flatten([j \in DOMAIN alts |->
                                  RefEval(obj, <<alts[j]>> \o AfterFallback)]))

C17_Witness ==
    /\ Returned /\ FallbackLeads /\ get_all
    /\ LeadingAlternatives = <<PyStr("b"), PyStr("a")>>
    /\ AfterFallback = << >>
    /\ DOMAIN Val(obj) = {"a", "b"}
    /\ ret = PyList(<<PyInt(2), PyInt(1)>>)

\* the matches of a path in obj over every combination of alternatives, a
\* leading Branch giving one alternative per entry (the first match of the
\* entry's sub-path, carried on through the rest of the path)
Ways(path) ==
    IF path # << >> /\ Tag(path[1]) = "tuple"
    THEN Flatten([i \in DOMAIN Val(path[1]) |->
                    RefEval(RefFirst(obj, SubPath(Val(path[1])[i])), Tail(path))])
    ELSE RefEval(obj, path)
Range(f) == {f[i] : i \in DOMAIN f}

\* C18: without get_all, a path is given up only when none of the
\* alternatives spawned in it by Filter, Fallback, Branch and Key over
\* Sequence reaches its end with a non-null value: when some path has such a
\* way, traverse returns a match of the earliest such path, not one of a later
\* path and not the default.
C18_AlternativesExhausted ==
    (Returned /\ ~get_all /\ obj # Null) =>
        LET reached == {i \in DOMAIN paths : Ways(paths[i]) # << >>} IN
        reached # {} => ret \in Range(Ways(paths[Minimum(reached)]))

\* the iteration about to run applies a Key to a Sequence
KeyOverSequence ==
    /\ pc = "while" /\ stack # << >>
    /\ TopFrame[2] < Len(paths[pathNo])
    /\ Tag(TopKey) = "str"
    /\ IsList(TopFrame[1])
\* element[key] of the elements of s that are Mappings holding the key, in
\* the order of s
FieldsOf(s, key) ==
    Flatten([j \in DOMAIN s |->
               IF IsDict(s[j]) /\ Val(key) \in DOMAIN Val(s[j])
               THEN <<Val(s[j])[Val(key)]>> ELSE << >>])
\* the frames of stk from position n on, the top of the stack first
FromTop(stk, n) == [j \in 1..(Len(stk) - n + 1) |-> stk[Len(stk) + 1 - j]]

\* C19: a Key applied to a Sequence goes on with element[key] of exactly the
\* elements that are Mappings holding the key, in sequence order (the first
\* such element is the next to be taken up); the other elements, nested
\* Sequences among them, are passed over without error.  With get_all the
\* path [key] over a Sequence returns these values, less the None ones.
C19_KeyOverSequence ==
    /\ [](/\ pc # "raised"
          /\ (Returned /\ get_all /\ IsList(obj) /\ Len(paths[1]) = 1) =>
                ret = ResultOf(SelectSeq(FieldsOf(Val(obj), paths[1][1]),
                                         LAMBDA x : x # Null)))
    /\ [][KeyOverSequence =>
            LET fields == FieldsOf(Val(TopFrame[1]), TopKey) IN
            /\ pc' = "while"
            /\ SubSeq(stack', 1, Len(stack) - 1) = SubSeq(stack, 1, Len(stack) - 1)
            /\ FromTop(stack', Len(stack)) =
                  [j \in DOMAIN fields |-> <<fields[j], TopFrame[2] + 1, None>>]]_vars

C19_Witness ==
    /\ Returned /\ get_all /\ paths = << <<PyStr("a")>> >>
    /\ IsList(obj) /\ Len(Val(obj)) = 2
    /\ Val(obj)[1] = PyList(<<PyDict([a |-> PyInt(1)])>>)
    /\ Val(obj)[2] = PyDict([a |-> PyInt(2)])
    /\ ret = PyList(<<PyInt(2)>>)

\* the frame about to be popped is at the end of its path and carries None
NullAtEnd ==
    /\ pc = "while" /\ stack # << >>
    /\ TopFrame[2] >= Len(paths[pathNo])
    /\ TopFrame[1] = Null
\* v is a non-null value at the end of one of the paths
ReachedAtEnd(v) == v # Null /\ \E i \in DOMAIN paths : v \in Range(RefEval(obj, paths[i]))

\* C20: None is never recorded as a match.  The list of results never holds
\* None; without get_all traverse returns a non-null value reached at the end
\* of a path, or the caller's default; with get_all the list returned holds no
\* None; and a frame that reaches the end of its path carrying None (a field
\* present with None, a Branch whose sub-path found nothing) is dropped with
\* nothing recorded.
C20_NullNeverAMatch ==
    /\ [](/\ \A i \in DOMAIN results : results[i] # Null
          /\ (Returned /\ ~get_all) => (ret = default \/ ReachedAtEnd(ret))
          /\ (Returned /\ get_all) =>
                \/ ret = default
                \/ /\ IsList(ret) /\ Val(ret) # << >>
                   /\ \A i \in DOMAIN Val(ret) : ReachedAtEnd(Val(ret)[i]))
    /\ [][NullAtEnd =>
            /\ pc' = "while"
            /\ results' = results
            /\ stack' = SubSeq(stack, 1, Len(stack) - 1)]_vars

\* a field present with None and a field present with 1, both under the key
\* asked for: only the 1 is returned
C20_Witness ==
    /\ Returned /\ get_all /\ paths = << <<PyStr("a"), PyStr("b")>> >>
    /\ obj = PyDict([a |-> PyList(<<PyDict([b |-> Null]),
                                    PyDict([a |-> PyInt(1), b |-> PyInt(1)])>>)])
    /\ ret = PyList(<<PyInt(1)>>)

\* the one path holds Key and Index segments only
ChainOnly == Len(paths) = 1 /\ IsChain(paths[1])
Depth == IF Len(paths[1]) = 0 THEN 1 ELSE Len(paths[1])

\* C21 as stated: on a path of Key and Index segments only, the stack never
\* holds more frames than the path has segments (one frame for the empty
\* path), however long the Sequences of the tree are.
C21_FramesBoundedByDepth ==
    ChainOnly => Len(stack) <= Depth

\* C21 amended: on a path of Key and Index segments only in which no Key is
\* applied to a Sequence, the stack never holds more than one frame, however
\* long the Sequences of the tree are.
C21_OneFrameOffSequences ==
    (ChainOnly /\ ~KeyMeetsSequence(obj, paths[1])) => Len(stack) <= 1

\* the last element of a list of MaxLen elements has been selected and the
\* third segment is about to be applied: one frame
C21_Witness ==
    /\ ChainOnly /\ ~KeyMeetsSequence(obj, paths[1])
    /\ paths[1] = <<PyStr("a"), PyInt(-1), PyStr("a")>>
    /\ IsDict(obj) /\ Len(Val(Val(obj)["a"])) = MaxLen
    /\ pc = "while" /\ Len(stack) = 1
    /\ stack[1][2] = 2 /\ IsDict(stack[1][1])

\* frame g, pushed when frame f was popped, is further on than f: at a later
\* segment, or at the same segment with a sub-index where f had none
FurtherOn(f, g) ==
    \/ g[2] > f[2]
    \/ g[2] = f[2] /\ f[3] = None /\ g[3] # None
\* more than any iteration pushes: the items of a list, the entries of a list key
FanOut == MaxLen + 2
\* a bound on the iterations a frame can still cause, and its sum over a stack
Weight(f, path) == FanOut ^ (2 * (Len(path) - f[2]) + (IF f[3] = None THEN 1 ELSE 0))
RECURSIVE StackWeight(_, _)
StackWeight(stk, path) ==
    IF stk = << >> THEN 0 ELSE Weight(Head(stk), path) + StackWeight(Tail(stk), path)

\* an iteration of `while stack:` pops the top frame, pushes frames that are
\* further on, and so lowers the weight of the stack
IterationAdvances ==
    (pc = "while" /\ stack # << >>) =>
        /\ SubSeq(stack', 1, Len(stack) - 1) = SubSeq(stack, 1, Len(stack) - 1)
        /\ \A j \in Len(stack)..Len(stack') : FurtherOn(TopFrame, stack'[j])
        /\ StackWeight(stack', paths[pathNo]) < StackWeight(stack, paths[pathNo])
        /\ pathNo' = pathNo
\* a turn of `for path in paths:` takes the next path or returns
TurnAdvances ==
    /\ (pc = "for") => (pathNo' = pathNo + 1 \/ pc' = "done")
    /\ (pc = "while" /\ stack = << >>) => (pc' \in {"for", "done"} /\ pathNo' = pathNo)

\* C25: on paths without a list inside a list key traverse terminates: it
\* returns in the end and raises nothing, because every frame pushed is
\* further on than the frame popped (a later segment, or the same segment with
\* a sub-index newly set), so that each iteration of `while stack:` lowers the
\* weight of the stack, and each turn of `for path in paths:` takes the next
\* path or returns.
C25_TraverseTerminates ==
    /\ <>(pc = "done")
    /\ [](pc # "raised")
    /\ [][IterationAdvances /\ TurnAdvances]_vars

\* both entries of a list key wait on the stack, the first on top
C25_Witness ==
    /\ pc = "while" /\ Len(stack) = 2
    /\ Tag(paths[pathNo][1]) = "list"
    /\ stack[1][2] = 0 /\ stack[1][3] = 1
    /\ stack[2][2] = 0 /\ stack[2][3] = 0

\* where a match lies in the tree of the choices a path leaves open: per
\* segment the number of the alternative taken at a list key, then the number
\* of the element taken in a sequence (1 where there is no choice)
Under(j, S) == {<< <<j>> \o e[1], e[2] >> : e \in S}
\* the values one key or filter leads to from x, x taken as one element
Onward(x, seg) ==
    IF Tag(seg) = "dict"
    THEN IF RefMatches(x, seg) THEN {x} ELSE {}
    ELSE IF IsDict(x) /\ HasKey(x, seg) THEN {Get(x, seg)} ELSE {}
\* the matches of a path in v, each with the place where it lies, as a set
RECURSIVE Located(_, _)
RECURSIVE LocSeg(_, _, _)
Located(v, path) ==
    IF path = << >>
    THEN IF v = Null THEN {} ELSE {<< << >>, v >>}
    ELSE LocSeg(v, Head(path), Tail(path))

LocSeg(v, seg, rest) ==
    IF Tag(seg) = "tuple" THEN Under(1, Located(RefFirst(v, Val(seg)), rest))
    ELSE IF Tag(seg) = "list"
    THEN UNION {Under(j, LocSeg(v, Val(seg)[j], rest)) : j \in DOMAIN Val(seg)}
    ELSE IF IsList(v)
    THEN IF Tag(seg) = "int"
         THEN IF IndexInRange(v, seg)
              THEN Under(1, Located(PyIndex(v, Val(seg)), rest))
              ELSE {}
         ELSE UNION {Under(j, UNION {Located(y, rest) : y \in Onward(Val(v)[j], seg)}) :
                     j \in DOMAIN Val(v)}
    ELSE Under(1, UNION {Located(y, rest) : y \in Onward(v, seg)})

\* place s lies before place t, depth first and left to right
LiesBefore(s, t) ==
    \E k \in (DOMAIN s) \cap (DOMAIN t) :
        /\ \A i \in 1..(k - 1) : s[i] = t[i]
        /\ s[k] < t[k]
\* the values of located matches, the match with i - 1 matches before it at i
InOrder(S) ==
    [i \in 1..Cardinality(S) |->
        (CHOOSE e \in S : Cardinality({x \in S : LiesBefore(x[1], e[1])}) = i - 1)[2]]

\* C26: with get_all and one path, the list returned holds the matches of the
\* path depth first and left to right: a match under an earlier element of a
\* sequence or an earlier alternative of a list key stands before a match
\* under a later one, at every depth of the path.
C26_DepthFirstLeftToRight ==
    (Returned /\ get_all /\ Len(paths) = 1) =>
        LET found == Located(obj, paths[1]) IN
        ret = IF found = {} THEN default ELSE PyList(InOrder(found))

\* alternatives of a list key over the elements of a sequence: the elements
\* under the first alternative, then the elements under the second
C26_Witness ==
    /\ Returned /\ get_all
    /\ obj = PyDict([a |-> PyList(<<PyDict([a |-> PyInt(1), b |-> PyInt(1)]),
                                    PyDict([a |-> PyInt(2), b |-> PyInt(2)])>>)])
    /\ paths = << <<PyStr("a"), PyList(<<PyStr("b"), PyStr("a")>>)>> >>
    /\ Located(obj, paths[1]) = {<< <<1, 1, 1>>, PyInt(1) >>, << <<1, 1, 2>>, PyInt(2) >>,
                                 << <<1, 2, 1>>, PyInt(1) >>, << <<1, 2, 2>>, PyInt(2) >>}
    /\ ret = PyList(<<PyInt(1), PyInt(2), PyInt(1), PyInt(2)>>)

(***************************************************************************)
(* Property of matches_criteria.                                           *)
(***************************************************************************)

\* C8: matches_criteria(element, criteria) is the subset match RefMatches:
\* element = criteria when criteria is no Mapping; else element is a Mapping
\* and every criteria key is in element with a value that matches (nested
\* criteria), is a member (a Sequence) or is equal.  Keys of element that the
\* criteria lack never make it fail; a criteria key that element lacks always
\* makes it fail.
C8_MatchesIsSubsetMatch ==
    m_pc = "done" =>
        /\ m_ret = RefMatches(m_item, m_criteria)
        /\ (IsDict(m_criteria) /\ IsDict(m_item)
              /\ DOMAIN Val(m_criteria) \ DOMAIN Val(m_item) # {}) => ~m_ret
        /\ (IsDict(m_criteria) /\ IsDict(m_item)) =>
              m_ret = RefMatches(PyDict([k \in DOMAIN Val(m_item) \cap DOMAIN Val(m_criteria)
                                           |-> Val(m_item)[k]]), m_criteria)

C8_Witness ==
    /\ m_pc = "done" /\ m_ret
    /\ IsDict(m_criteria) /\ DOMAIN Val(m_criteria) = {"a"}
    /\ Val(m_criteria)["a"] = PyDict([b |-> PyList(<<PyInt(2)>>)])
    /\ IsDict(m_item) /\ DOMAIN Val(m_item) = {"a", "b"}
    /\ DOMAIN Val(Val(m_item)["a"]) = {"a", "b"}

(***************************************************************************)
(* Properties of the page loops.                                           *)
(***************************************************************************)
IsPage(o) == IsDict(o)
HasItemList(page) == "items" \in DOMAIN Val(page) /\ IsList(Val(page)["items"])
ItemsOf(page) == Val(Val(page)["items"])
\* the page carries a cursor token: a non-empty string
HasToken(page) ==
    /\ "cursor" \in DOMAIN Val(page)
    /\ Tag(Val(page)["cursor"]) = "str"
    /\ Val(Val(page)["cursor"]) # ""
\* the page carries no cursor: the field is missing or null
HasNoCursor(page) == "cursor" \notin DOMAIN Val(page) \/ Val(page)["cursor"] = Null
\* items(p1) ++ ... ++ items(pn)
ItemsOfPages(n) == Flatten([k \in 1..n |-> ItemsOf(script[k])])

\* pages 1..n-1 carry a cursor token, page n carries none, each holds an
\* item list, and n pages are all the server has
PagesThenEnd(n) ==
    /\ n = Len(script)
    /\ \A k \in 1..n : IsPage(script[k]) /\ HasItemList(script[k])
    /\ \A k \in 1..(n - 1) : HasToken(script[k])
    /\ HasNoCursor(script[n])

\* C1: over pages p1..pn of which p1..pn-1 carry a cursor token and pn none,
\* generic_page_loop_return makes exactly n requests, returns items(p1) ++
\* ... ++ items(pn), and for k >= 2 the k-th request's parameters carry the
\* cursor token of page k-1.
C1_CollectFetchesAllPages ==
    \A n \in 1..MaxPages :
        PagesThenEnd(n) =>
            /\ Len(c_requests) <= n
            /\ c_pc # "raised"
            /\ c_pc = "done" =>
                  /\ Len(c_requests) = n
                  /\ c_ret = PyList(ItemsOfPages(n))
                  /\ "cursor" \notin DOMAIN Val(c_requests[1].params)
            /\ \A k \in 2..Len(c_requests) :
                  /\ "cursor" \in DOMAIN Val(c_requests[k].params)
                  /\ Val(c_requests[k].params)["cursor"] = Val(script[k - 1])["cursor"]

C1_Witness ==
    /\ PagesThenEnd(MaxPages)
    /\ c_pc = "done"
    /\ Len(c_requests) = MaxPages
    /\ Len(Val(c_ret)) = MaxPages * MaxItems
    /\ Val(c_requests[MaxPages].params)["cursor"] = Token(MaxPages - 1)

\* requests 1..k-1 meet pages with an item list and a cursor token, request k fails
FailsAt(k) ==
    /\ k = Len(script)
    /\ IsRaised(script[k])
    /\ \A j \in 1..(k - 1) : HasItemList(script[j]) /\ HasToken(script[j])

IsPrefix(s, t) == Len(s) <= Len(t) /\ s = SubSeq(t, 1, Len(s))

\* C2: when the k-th request fails, the failure leaves the loop as it is:
\* generic_page_loop_return returns nothing (no list, empty or not), and the
\* generator of generic_page_loop has handed the consumer exactly the items
\* of pages 1..k-1, in order, when it raises.
C2_FetchFailurePropagates ==
    \A k \in 1..MaxPages :
        FailsAt(k) =>
            /\ c_pc # "done"
            /\ c_pc = "raised" => c_ret = script[k] /\ Len(c_requests) = k
            /\ s_pc # "done"
            /\ IsPrefix(s_delivered, ItemsOfPages(k - 1))
            /\ s_pc = "raised" =>
                  /\ s_exc = script[k]
                  /\ Len(s_requests) = k
                  /\ s_delivered = ItemsOfPages(k - 1)

C2_Witness ==
    /\ FailsAt(MaxPages)
    /\ c_pc = "raised" /\ c_ret = HTTPError
    /\ s_pc = "raised" /\ s_exc = HTTPError
    /\ Len(s_delivered) = (MaxPages - 1) * MaxItems

\* every page of the script holds an item list
AllItemLists == \A k \in DOMAIN script : IsPage(script[k]) => HasItemList(script[k])
StreamOver == s_pc \in {"done", "raised"}

\* C12: over pages that each hold an item list, the generator of
\* generic_page_loop, consumed to its end, and generic_page_loop_return do the
\* same: the same requests in the same order (each request being what
\* safe_request is called with), the same end (both complete or both raise
\* the same exception), and the items yielded are the list returned.
C12_StreamEqualsCollect ==
    (AllItemLists /\ CollectOver /\ StreamOver) =>
        /\ s_requests = c_requests
        /\ (s_pc = "done") <=> (c_pc = "done")
        /\ c_pc = "done" => PyList(s_delivered) = c_ret
        /\ c_pc = "raised" => s_exc = c_ret

\* the parameters of request k of a loop are the caller's plus the one entry
\* 'cursor', holding what page k-1 holds at path_to_cursor
CursorForwarded(requests) ==
    \A k \in 2..Len(requests) :
        LET sent == Val(requests[k].params) IN
        /\ DOMAIN sent = DOMAIN Val(InitialParams) \cup {"cursor"}
        /\ \A f \in DOMAIN Val(InitialParams) : sent[f] = Val(InitialParams)[f]
        /\ sent["cursor"] = Val(script[k - 1])["cursor"]
        /\ \A j \in 1..(k - 2) : sent["cursor"] # Val(script[j])["cursor"]
FirstWithoutCursor(requests) ==
    requests # << >> => requests[1].params = InitialParams

\* C13: every request after the first carries the caller's parameters plus
\* exactly the entry 'cursor' with the token of the page just before it,
\* unchanged; no earlier token comes back; the caller's params mapping is
\* never changed, so the generator, started after the collecting loop is over,
\* sends its first request with the initial parameters and no cursor.
C13_CursorForwardedParamsKept ==
    /\ params = InitialParams
    /\ "cursor" \notin DOMAIN Val(InitialParams)
    /\ CursorForwarded(c_requests) /\ FirstWithoutCursor(c_requests)
    /\ CursorForwarded(s_requests) /\ FirstWithoutCursor(s_requests)

C13_Witness ==
    /\ c_pc = "done" /\ Len(c_requests) = MaxPages
    /\ s_pc = "done" /\ Len(s_requests) = MaxPages
    /\ s_requests[1].params = InitialParams
    /\ \A k \in 2..MaxPages : Val(s_requests[k].params)["cursor"] = Token(k - 1)
    /\ Val(c_requests[MaxPages].params)["cursor"] = Token(MaxPages - 1)

ItemsIn(o) == IF IsPage(o) /\ HasItemList(o) THEN ItemsOf(o) ELSE << >>
\* the items of the pages the generator has fetched so far, in page order
ItemsFetched == Flatten([k \in 1..Len(s_requests) |-> ItemsIn(script[k])])

\* a step that sends a request does so while the consumer waits inside
\* next(), sends one, and finds every item fetched before already yielded
FetchOnDemand ==
    s_requests' # s_requests =>
        /\ s_running
        /\ s_delivered = ItemsFetched
        /\ s_requests' = Append(s_requests, s_requests'[Len(s_requests')])
\* a step that yields an item yields one, sends nothing and suspends
YieldSuspends ==
    s_delivered' # s_delivered =>
        /\ ~s_running'
        /\ s_requests' = s_requests
        /\ Len(s_delivered') = Len(s_delivered) + 1
NothingBeforeFirstNext ==
    s_pc = "created" => (s_requests = << >> /\ s_delivered = << >>)

\* C14: the generator of generic_page_loop never fetches ahead.  Nothing is
\* fetched before the consumer first asks; a request is sent only while the
\* consumer waits inside next(), one per step, and only when every item of
\* every page fetched before has been yielded; each item yielded hands
\* control back to the consumer; the items yielded are a prefix of the pages'
\* items in page order and list order.
C14_NoPrefetch ==
    /\ [](NothingBeforeFirstNext /\ IsPrefix(s_delivered, ItemsFetched))
    /\ [][FetchOnDemand /\ YieldSuspends]_vars

\* the consumer holds every item of page 1 and has not asked again: page 2,
\* which the server has, is not fetched
C14_Witness ==
    /\ Len(script) >= 2 /\ HasToken(script[1])
    /\ s_pc = "yield" /\ ~s_running
    /\ Len(s_requests) = 1
    /\ s_delivered = ItemsIn(script[1]) /\ Len(s_delivered) = MaxItems

\* path_to_cursor finds a token in the page: the field is there and not null
TokenFound(page) == ~HasNoCursor(page)
\* a loop that has sent `requests` and is at pc went on after each page but
\* the last exactly because a token was found there, sent that token, and is
\* done only if the last page holds none
DoneIffNoToken(requests, at) ==
    /\ \A k \in 1..(Len(requests) - 1) : TokenFound(script[k])
    /\ \A k \in 2..Len(requests) :
          Val(requests[k].params)["cursor"] = Val(script[k - 1])["cursor"]
    /\ at = "done" => ~TokenFound(script[Len(requests)])
    /\ at = "fetch" /\ requests # << >> => TokenFound(script[Len(requests)])

\* C15: after a page, generic_page_loop and generic_page_loop_return are done
\* if and only if path_to_cursor finds no token in it: every non-null value
\* found there is sent with one more request, and without one no request
\* follows.
C15_DoneIffNoToken ==
    /\ DoneIffNoToken(c_requests, c_pc)
    /\ DoneIffNoToken(s_requests, s_pc)

\* the state of the stream the generator is in: Fetching until a page is in
\* hand, Emitting while the page is worked on (items, then the cursor)
Phase(at) ==
    IF at \in {"created", "fetch"} THEN "Fetching"
    ELSE IF at \in {"output", "yield", "cursor"} THEN "Emitting"
    ELSE IF at = "done" THEN "Done" ELSE "Failed"
StreamTransitions ==
    {<<"Fetching", "Emitting">>, <<"Fetching", "Failed">>,
     <<"Emitting", "Fetching">>, <<"Emitting", "Done">>}

\* C22: Done and Failed are terminal for the generator of generic_page_loop:
\* from there on no request is sent and no item yielded; and the stream only
\* ever moves Fetching -> Emitting (the fetch succeeded), Fetching -> Failed
\* (the fetch failed), Emitting -> Fetching (a token was found) and
\* Emitting -> Done (none was).
C22_StreamStateMachine ==
    [][/\ Phase(s_pc) \in {"Done", "Failed"} =>
             /\ s_pc' = s_pc
             /\ s_requests' = s_requests
             /\ s_delivered' = s_delivered
       /\ Phase(s_pc') # Phase(s_pc) =>
             /\ <<Phase(s_pc), Phase(s_pc')>> \in StreamTransitions
             /\ Phase(s_pc') = "Failed" =>
                   /\ IsRaised(script[Len(s_requests')])
                   /\ s_exc' = script[Len(s_requests')]]_vars

\* C23: a page in which path_to_output finds nothing (no item list, or None)
\* is no error in either loop: it adds no item and the loop goes on to the
\* cursor; a loop ends raised only with the exception of a failed fetch, and
\* a loop that is done has returned, or yielded, the items of the pages that
\* hold item lists.
C23_NoMatchIsNoError ==
    /\ c_pc = "raised" =>
          IsRaised(script[Len(c_requests)]) /\ c_ret = script[Len(c_requests)]
    /\ s_pc = "raised" =>
          IsRaised(script[Len(s_requests)]) /\ s_exc = script[Len(s_requests)]
    /\ c_pc = "done" =>
          c_ret = PyList(Flatten([k \in 1..Len(c_requests) |-> ItemsIn(script[k])]))
    /\ s_pc = "done" => s_delivered = ItemsFetched

\* the last page the server has answered `requests` with, as it was sent
LastPage(requests) ==
    IF IsRaised(script[Len(requests)])
    THEN script[Len(requests) - 1]
    ELSE script[Len(requests)]

\* C24: the pages safe_request returned are as they were fetched, however
\* many pages the loops have worked on since: the first page of
\* generic_page_loop_return, item list included, the page it has in hand, and
\* the page the generator has in hand.
C24_PagesUnchanged ==
    /\ c_first # Null => c_first = script[1]
    /\ c_res # Null => c_res = LastPage(c_requests)
    /\ s_res # Null => s_res = LastPage(s_requests)

(***************************************************************************)
(* Property of apply_writes_batch.                                         *)
(***************************************************************************)
\* w is the write of record r: r itself, or a create that carries r
WriteFor(w, r) ==
    \/ w = r /\ r.type[1] = ApplyWrites
    \/ /\ r.type[1] # ApplyWrites
       /\ w = [type |-> <<ApplyWrites, "create">>, collection |-> r.type, value |-> r]
\* the number of batches for n records
Batches(n) == (n + BatchSize - 1) \div BatchSize
\* the writes posted so far, one after the other, are those of the first records
PostedInOrder ==
    LET sent == Flatten(b_posted) IN
    /\ Len(sent) <= Len(b_records)
    /\ \A k \in DOMAIN sent : WriteFor(sent[k], b_records[k])

\* C27: every apply_writes call carries between 1 and 200 writes, and the
\* writes of the calls, in call order, are one write per record in the order
\* of the records; when apply_writes_batch returns for n >= 1 records it has
\* made exactly ceil(n / 200) calls and they cover every record (the last,
\* partial batch is sent); for an empty list no call is made.
C27_BatchesOfTwoHundred ==
    /\ \A c \in DOMAIN b_posted : Len(b_posted[c]) \in 1..BatchSize
    /\ PostedInOrder
    /\ b_records = << >> => b_posted = << >>
    /\ (b_pc = "done" /\ b_records # << >>) =>
          /\ Len(b_posted) = Batches(Len(b_records))
          /\ Len(Flatten(b_posted)) = Len(b_records)
          /\ Len(b_ret) = Len(b_posted)

\* two full batches and a last one of a single write
C27_Witness ==
    /\ b_pc = "done"
    /\ Len(b_records) = 2 * BatchSize + 1
    /\ Len(b_posted) = 3
    /\ Len(b_posted[1]) = BatchSize /\ Len(b_posted[2]) = BatchSize
    /\ Len(b_posted[3]) = 1

====
